---- MODULE Spec2Model ----
(***************************************************************************)
(* Model of the backmeup job orchestration engine:                         *)
(*   - scheduler.JobScheduler (AddJob, the job closure, Start, Stop,       *)
(*     RegisterStatusCallback) on top of gocron v1.37.0 in its default     *)
(*     mode,                                                               *)
(*   - server.JobStatusTracker (UpdateJobStatus, SetSchedulerRunning,      *)
(*     GetAllStatuses, isHealthy) and the callback that                    *)
(*     RegisterJobStatusUpdate installs,                                   *)
(*   - server.MetricsCollector,                                            *)
(*   - retention.Manager (count and days policies on a job directory),     *)
(*   - the /health handler of the tracker.                                 *)
(* Specifications: Spec (scheduler, runs, shutdown, one subscribed         *)
(* tracker), SpecReg (registration with any AddJob input), SpecTracker     *)
(* (the tracker under its own interface), SpecRetention (one retention     *)
(* call after another on any small directory).                             *)
(* Timers (the 12 hour run deadline, the documented shutdown grace period) *)
(* are events that may happen at any moment while they are armed.          *)
(***************************************************************************)
EXTENDS Integers, Sequences, FiniteSets, Bags, TLC

\* ---------------------------------------------------------------- bounds
\* run goroutines that exist at the same time
MaxRuns == 2
\* artifacts the executors create over a behaviour (also the newest mtime)
MaxClock == 2
\* AddJob calls that succeed for one name
MaxEntries == 2
\* entries of a job directory when ApplyRetentionPolicy is first called
MaxArtifacts == 3
\* modification times, in days, of the entries a directory starts with
MaxMtime == 2
\* retention_policy.value (Validate requires it positive)
MaxKeep == 2
\* UpdateJobMetrics calls over a behaviour
MaxUpdates == 3

\* ------------------------------------------------------- fixed input sets
Jobs == {"A", "B"}
Trackers == {"t1"}
\* retention_policy.value of each job's configuration (type count)
RetentionOf == [j \in Jobs |-> IF j = "A" THEN 1 ELSE 2]
\* the executors main builds (one per job block of the configuration)
Executors == {"e1", "e2"}
ExecutorOf == [j \in Jobs |-> "e1"]
\* retention_policy.value of the configurations passed to AddJob
RetentionValues == {1, 2}
\* run durations, in nanoseconds, and backup sizes, in bytes, passed to
\* UpdateJobMetrics
Durations == {1, 10, 20, 30}
Sizes == {0, 5}

\* ------------------------------------------------------ status constants
StatusRunning == "RUNNING"
StatusPending == "PENDING"
StatusError == "ERROR"
StatusComplete == "COMPLETE"
StatusStopped == "STOPPED"
SchedulerKey == "scheduler"

Statuses == {StatusRunning, StatusPending, StatusError, StatusComplete, StatusStopped}
Keys == Jobs \cup {SchedulerKey}

VARIABLES
  jobs,               \* js.jobs: names that have a stored executor
  executors,          \* js.jobs: name -> the executor stored for it
  entries,            \* gocron: name -> number of cron jobs tagged with it
  timers,             \* gocron: name -> number of armed run timers
  lastAdd,            \* history: input and result of the last AddJob call
  jobConfigs,         \* js.jobConfigs: name -> retention value (count policy)
  callbacks,          \* js.callbacks: sequence of subscribed trackers
  schedRunning,       \* gocron: Scheduler.IsRunning()
  stopPc,             \* "waiting" while the caller is inside JobScheduler.Stop
  graceElapsed,       \* the documented shutdown grace period has elapsed
  runs,               \* the run goroutines in flight: a bag of run records
  lastRun,            \* history: the run that returned most recently
  files,              \* job -> set of artifacts (mtimes) in its directory
  clock,              \* mtime of the newest artifact created so far
  jobStatuses,        \* tracker -> jst.jobStatuses
  isSchedulerRunning, \* tracker -> jst.isSchedulerRunning
  metrics,            \* MetricsCollector.metrics: job -> JobMetrics
  resp,               \* tracker -> the /health response being written
  jobDirExists,       \* the backup directory of one job exists
  dirEntries,         \* the entries of that job's backup directory
  siblingEntries,     \* the entries of another job's backup directory
  policy,             \* that job's retention_policy: [type, value]
  snap,               \* the map a caller of GetAllStatuses got back, per tracker
  lastUpdate,         \* history: the arguments of the last UpdateJobMetrics call
  durationSum,        \* history: job -> sum of the durations passed so far
  minio,              \* job -> the MinioExecutor.Execute call of its run
  metricsCopy,        \* the map a caller of GetAllJobMetrics got back
  cfg,                \* the configuration LoadConfig returned
  validateErr,        \* what cfg.Validate() returned ("unset" before the call)
  lastApply           \* history: the last ApplyRetentionPolicy call

vars == <<jobs, executors, entries, timers, lastAdd,
          jobConfigs, callbacks, schedRunning, stopPc, graceElapsed, runs, lastRun, files, clock, jobStatuses,
          isSchedulerRunning, metrics, resp, jobDirExists, dirEntries,
          siblingEntries, policy, lastApply, snap, lastUpdate,
          durationSum, cfg, validateErr, minio, metricsCopy>>

\* what AddJob, Start and Stop keep about the registered names
regVars == <<executors, entries, timers, lastAdd>>

schedVars == <<jobs, regVars, jobConfigs, callbacks, schedRunning, stopPc,
               graceElapsed, runs, lastRun, files, clock, metrics>>

\* the variables of the components a scheduler operation never touches
retVars == <<jobDirExists, dirEntries, siblingEntries, policy, lastApply>>
obsVars == <<snap, lastUpdate, durationSum>>
cfgVars == <<cfg, validateErr>>
extVars == <<cfgVars, minio, metricsCopy>>
auxVars == <<resp, retVars, obsVars, extVars>>

\* ----------------------------------------------------------------- helpers
Range(s) == {s[i] : i \in 1..Len(s)}

EmptyMap == [k \in {} |-> StatusPending]

NoAdd == [called |-> FALSE, cronOk |-> TRUE, err |-> FALSE]

NoApply == [called |-> FALSE, before |-> {}, attempted |-> {}, denied |-> {},
            listFailed |-> FALSE, err |-> FALSE, everRemoved |-> FALSE]

NoSnapshot == [pc |-> "none", map |-> EmptyMap]

NoUpdate == [called |-> FALSE, job |-> "none", duration |-> 0,
             success |-> FALSE, backupSize |-> 0]

\* no Execute call: main is the goroutine that called Execute, logger the
\* goroutine that logs progress, closed the state of the channel done, ctx
\* the context passed in, waitErr what cmd.Wait returned
NoExecute == [main |-> "idle", logger |-> "none", closed |-> FALSE,
              ctx |-> "active", waitErr |-> FALSE, result |-> "none"]

NoRun == [job |-> "none", execErr |-> FALSE, retErr |-> FALSE, notified |-> <<>>]

ActivePcs == {"executing", "retention"}

\* what a run goroutine can be: its job, the call it is inside of, and the
\* state of the context it handed to Execute
RunStates == [job : Jobs, pc : ActivePcs, ctx : {"active", "deadline"}]

One(r) == SetToBag({r})

ActiveRuns == BagToSet(runs)

\* number of runs of job j in flight
NumActive(j) ==
  BagCardinality([r \in {x \in BagToSet(runs) : x.job = j} |-> runs[r]])

\* ------------------------------------------------------- JobStatusTracker
\* an update that replaces the whole map by the one entry
UpdateJobStatusClobbers(st, jobName, status) ==
  [k \in {jobName} |-> status]

\* jst.jobStatuses[jobName] = status
UpdateJobStatus(st, jobName, status) ==
  [k \in DOMAIN st \cup {jobName} |-> IF k = jobName THEN status ELSE st[k]]

\* the switch of the callback installed by RegisterJobStatusUpdate
MapStatus(status) ==
  CASE status = StatusRunning -> StatusRunning
    [] status = StatusPending -> StatusPending
    [] status = StatusError -> StatusError
    [] status = StatusComplete -> StatusComplete
    [] OTHER -> StatusPending

TrackerCallback(st, jobName, status) ==
  UpdateJobStatus(st, jobName, MapStatus(status))

\* for _, callback := range js.callbacks { callback(jobName, status, now) }
NotifyAll(all, jobName, status) ==
  [t \in Trackers |-> IF t \in Range(callbacks)
                        THEN TrackerCallback(all[t], jobName, status)
                        ELSE all[t]]

GetAllStatuses(running, st) ==
  LET sched == IF running THEN StatusRunning ELSE StatusStopped
  IN [k \in {SchedulerKey} \cup DOMAIN st |->
        IF k \in DOMAIN st THEN st[k] ELSE sched]

RECURSIVE NoErrorIn(_, _)
\* the range loop of isHealthy: return false at the first ERROR entry
NoErrorIn(st, keys) ==
  IF keys = {} THEN TRUE
  ELSE LET k == CHOOSE x \in keys : TRUE
       IN IF st[k] = StatusError THEN FALSE
          ELSE NoErrorIn(st, keys \ {k})

\* an isHealthy that forgets the scheduler flag
isHealthyIgnoresScheduler(running, st) ==
  NoErrorIn(st, DOMAIN st)

isHealthy(running, st) ==
  IF ~running THEN FALSE ELSE NoErrorIn(st, DOMAIN st)

\* net/http status codes the handler writes
StatusOK == 200
StatusServiceUnavailable == 503

\* a handler that always answers 200
HealthStatusCodeAlwaysOK(healthy) == StatusOK

\* HealthCheckHandler: the status code written for the result of isHealthy()
HealthStatusCode(healthy) ==
  IF healthy THEN StatusOK ELSE StatusServiceUnavailable

NoResponse == [pc |-> "idle", code |-> 0, body |-> EmptyMap]

\* ------------------------------------------------------ retention.Manager
RECURSIVE Newest(_, _)
\* the first n artifacts after sorting by modification time, newest first
Newest(S, n) ==
  IF n = 0 \/ S = {} THEN {}
  ELSE LET m == CHOOSE x \in S : \A y \in S : y <= x
       IN {m} \cup Newest(S \ {m}, n - 1)

\* artifacts applyCountBasedRetention tries to delete
CountVictims(S, keepCount) ==
  IF Cardinality(S) <= keepCount THEN {} ELSE S \ Newest(S, keepCount)

\* ------------------------------------------------------- MetricsCollector
\* JobMetrics{}: the zero value a job starts from
ZeroMetrics == [LastRunDuration |-> 0, AverageRunDuration |-> 0, TotalRuns |-> 0,
                SuccessfulRuns |-> 0, FailedRuns |-> 0, TotalBackupSize |-> 0,
                LastBackupSize |-> 0]

\* metrics, exists := mc.metrics[jobName]
GetJobMetrics(m, jobName) ==
  IF jobName \in DOMAIN m THEN m[jobName] ELSE ZeroMetrics

\* the second result of GetJobMetrics: return metrics, exists
GetJobMetricsFound(m, jobName) == jobName \in DOMAIN m

\* result := make(map[string]JobMetrics, len(mc.metrics)) filled entry by
\* entry from mc.metrics
GetAllJobMetrics(m) == [job \in DOMAIN m |-> m[job]]

\* before any GetAllJobMetrics call returned
NoCopy == [pc |-> "none", map |-> [job \in {} |-> ZeroMetrics]]

\* a GetAllJobMetrics that returns mc.metrics itself
CollectorAfterCallerWriteShared(m, jobName, value) ==
  [k \in DOMAIN m \cup {jobName} |-> IF k = jobName THEN value ELSE m[k]]

\* the returned map is one GetAllJobMetrics made itself: what a caller
\* assigns into it reaches no map of the collector
CollectorAfterCallerWrite(m, jobName, value) == m

\* an average that weighs the old value with the new count
AverageRunDurationNewCount(average, n, duration) ==
  (average * n + duration) \div n

\* time.Duration((average.Nanoseconds()*(int64(n)-1) + duration.Nanoseconds())
\* / int64(n)), n the TotalRuns already incremented: int64 division
AverageRunDuration(average, n, duration) ==
  (average * (n - 1) + duration) \div n

\* a counter of failed runs that never moves
FailedRunsAfterStuck(failed, success) == failed

\* if success { SuccessfulRuns++ } else { FailedRuns++ }
FailedRunsAfter(failed, success) == failed + (IF success THEN 0 ELSE 1)

UpdateJobMetrics(m, jobName, duration, success, backupSize) ==
  LET old == GetJobMetrics(m, jobName)
      n == old.TotalRuns + 1
      new == [LastRunDuration |-> duration,
              AverageRunDuration |->
                AverageRunDuration(old.AverageRunDuration, n, duration),
              TotalRuns |-> n,
              SuccessfulRuns |-> old.SuccessfulRuns + (IF success THEN 1 ELSE 0),
              FailedRuns |-> FailedRunsAfter(old.FailedRuns, success),
              TotalBackupSize |-> old.TotalBackupSize + backupSize,
              LastBackupSize |-> backupSize]
  IN [k \in DOMAIN m \cup {jobName} |-> IF k = jobName THEN new ELSE m[k]]

\* ------------------------------------------------------------ the closure
\* a closure that lets a retention error decide the final state
TerminalStatusRetentionFlips(execErr, retErr) ==
  IF execErr \/ retErr THEN StatusError ELSE StatusComplete

\* the state the closure notifies after executor.Execute returned
TerminalStatus(execErr, retErr) ==
  IF execErr THEN StatusError ELSE StatusComplete

\* ---------------------------------------------------------- config.Validate
\* the largest port Validate accepts
MaxPort == 65535

Ports == {-1, 0, 1, MaxPort, MaxPort + 1}

\* *PostgresConfig, *MySQLConfig, *MinIOConfig: present is FALSE for nil
PostgresConfigs ==
  [present : BOOLEAN, Host : {"", "db"}, Database : {"", "app"}]
MySQLConfigs == [present : BOOLEAN, ConnectionString : {"", "dsn"}]
MinIOConfigs ==
  [present : BOOLEAN, Endpoint : {"", "play"}, BucketName : {"", "data"}]

NilPostgres == [present |-> FALSE, Host |-> "", Database |-> ""]
NilMySQL == [present |-> FALSE, ConnectionString |-> ""]
NilMinIO == [present |-> FALSE, Endpoint |-> "", BucketName |-> ""]
FullPostgres == [present |-> TRUE, Host |-> "db", Database |-> "app"]
FullMySQL == [present |-> TRUE, ConnectionString |-> "dsn"]

\* the type of a job with the settings blocks the file gives it: the block of
\* the job's own type in every shape, and a block of another type
TypedSettings ==
  [Type : {"postgres"},
   PostgresConfig : {c \in PostgresConfigs : c.present} \cup {NilPostgres},
   MySQLConfig : {NilMySQL, FullMySQL}, MinIOConfig : {NilMinIO}]
  \cup
  [Type : {"mysql"}, PostgresConfig : {NilPostgres, FullPostgres},
   MySQLConfig : {c \in MySQLConfigs : c.present} \cup {NilMySQL},
   MinIOConfig : {NilMinIO}]
  \cup
  [Type : {"minio"}, PostgresConfig : {NilPostgres}, MySQLConfig : {NilMySQL},
   MinIOConfig : {c \in MinIOConfigs : c.present} \cup {NilMinIO}]
  \cup
  [Type : {"redis"}, PostgresConfig : {NilPostgres, FullPostgres},
   MySQLConfig : {NilMySQL}, MinIOConfig : {NilMinIO}]

\* JobConfig, the fields Validate reads
JobConfigs ==
  { [Name |-> n, Type |-> ts.Type, PostgresConfig |-> ts.PostgresConfig,
     MySQLConfig |-> ts.MySQLConfig, MinIOConfig |-> ts.MinIOConfig,
     Schedule |-> sc, RetentionPolicy |-> [Type |-> rt, Value |-> rv]] :
      n \in {"", "A"}, ts \in TypedSettings, sc \in {"", "@daily"},
      rt \in {"count", "days", "size"}, rv \in {-1, 0, 1} }

\* a job block that breaks no rule
GoodJob ==
  [Name |-> "B", Type |-> "mysql", PostgresConfig |-> NilPostgres,
   MySQLConfig |-> FullMySQL, MinIOConfig |-> NilMinIO, Schedule |-> "@hourly",
   RetentionPolicy |-> [Type |-> "days", Value |-> 2]]

\* Config, the fields Validate reads: no job, one job, or a job after a good
\* one
Configs ==
  [Server : [Enabled : BOOLEAN, Port : Ports],
   Storage : [Type : {"local", "s3"}, Directory : {"", "/backups"}],
   Jobs : {<<>>} \cup {<<j>> : j \in JobConfigs}
                 \cup {<<GoodJob, j>> : j \in JobConfigs}]

\* the configuration main runs with in the other specifications
DefaultConfig ==
  [Server |-> [Enabled |-> TRUE, Port |-> 1],
   Storage |-> [Type |-> "local", Directory |-> "/backups"],
   Jobs |-> <<GoodJob>>]

\* a check of the retention value that lets 0 pass
RetentionValueBreaksRuleNegativeOnly(value) == value < 0

\* if job.RetentionPolicy.Value <= 0 { return error }
RetentionValueBreaksRule(value) == value <= 0

\* the body of Validate's loop for one job: the first rule it breaks
ValidateJob(job) ==
  IF job.Name = "" THEN "name"
  ELSE LET settings ==
             CASE job.Type = "postgres" ->
                    IF ~job.PostgresConfig.present THEN "postgres_config"
                    ELSE IF job.PostgresConfig.Host = "" THEN "postgres_host"
                    ELSE IF job.PostgresConfig.Database = ""
                      THEN "postgres_database"
                    ELSE "nil"
               [] job.Type = "mysql" ->
                    IF \/ ~job.MySQLConfig.present
                       \/ job.MySQLConfig.ConnectionString = ""
                      THEN "mysql_config" ELSE "nil"
               [] job.Type = "minio" ->
                    IF \/ ~job.MinIOConfig.present
                       \/ job.MinIOConfig.Endpoint = ""
                       \/ job.MinIOConfig.BucketName = ""
                      THEN "minio_config" ELSE "nil"
               [] OTHER -> "type"
       IN IF settings # "nil" THEN settings
          ELSE IF job.Schedule = "" THEN "schedule"
          ELSE IF /\ job.RetentionPolicy.Type # "count"
                  /\ job.RetentionPolicy.Type # "days"
            THEN "retention_type"
          ELSE IF RetentionValueBreaksRule(job.RetentionPolicy.Value)
            THEN "retention_value"
          ELSE "nil"

RECURSIVE ValidateJobs(_, _)
\* for i, job := range c.Jobs: return at the first job that breaks a rule
ValidateJobs(list, i) ==
  IF i > Len(list) THEN "nil"
  ELSE IF ValidateJob(list[i]) # "nil" THEN ValidateJob(list[i])
  ELSE ValidateJobs(list, i + 1)

\* Config.Validate: "nil" or the first rule broken, in the order of the code
Validate(c) ==
  IF c.Server.Enabled /\ (c.Server.Port <= 0 \/ c.Server.Port > MaxPort)
    THEN "port"
  ELSE IF c.Storage.Type = "local" /\ c.Storage.Directory = ""
    THEN "directory"
  ELSE IF c.Storage.Type # "local" THEN "storage"
  ELSE IF Len(c.Jobs) = 0 THEN "no_jobs"
  ELSE ValidateJobs(c.Jobs, 1)

\* LoadConfig returned the default configuration and Validate was not called
InitConfig ==
  /\ cfg = DefaultConfig
  /\ validateErr = "unset"

\* ------------------------------------------------------------------- Init
InitScheduler ==
  /\ jobs = {}
  /\ executors = [j \in {} |-> "e1"]
  /\ entries = [j \in Jobs |-> 0]
  /\ timers = [j \in Jobs |-> 0]
  /\ lastAdd = NoAdd
  /\ jobConfigs = [j \in {} |-> 0]
  /\ callbacks = <<>>
  /\ schedRunning = FALSE
  /\ stopPc = "idle"
  /\ graceElapsed = FALSE
  /\ runs = EmptyBag
  /\ lastRun = NoRun
  /\ files = [j \in Jobs |-> {}]
  /\ clock = 0
  /\ jobStatuses = [t \in Trackers |-> EmptyMap]
  /\ isSchedulerRunning = [t \in Trackers |-> FALSE]
  /\ metrics = EmptyMap
  /\ resp = [t \in Trackers |-> NoResponse]
  /\ snap = [t \in Trackers |-> NoSnapshot]
  /\ lastUpdate = NoUpdate
  /\ durationSum = [j \in Jobs |-> 0]
  /\ minio = [j \in Jobs |-> NoExecute]
  /\ metricsCopy = NoCopy

\* the scheduler after NewJobScheduler, no backup directory created yet
Init ==
  /\ InitScheduler
  /\ InitConfig
  /\ jobDirExists = FALSE
  /\ dirEntries = {}
  /\ siblingEntries = {}
  /\ policy = [type |-> "count", value |-> 1]
  /\ lastApply = NoApply

\* the goroutine that calls AddJob/Start/Stop is not blocked inside Stop
CallerFree == stopPc = "idle"

\* --------------------------------------------------------------- actions
\* an AddJob that goes on after gocron returned an error
AddJobProceedsDespiteError(err) == TRUE

\* AddJob: "if err != nil { return err }" after scheduler.Cron(..).Do(..)
AddJobProceeds(err) == ~err

\* AddJob(jobConfig, executor) for the name j; cronOk: gocron parses
\* jobConfig.Schedule. Cron(..).Do(..) adds a cron job (armed at once when the
\* scheduler runs) or, for an unparsable expression, removes it again and
\* returns the error; then the job is tagged and stored and the subscribers
\* are notified PENDING.
AddJob(j, executor, value, cronOk) ==
  /\ CallerFree
  /\ lastAdd' = [called |-> TRUE, cronOk |-> cronOk, err |-> ~cronOk]
  /\ entries' = IF cronOk THEN [entries EXCEPT ![j] = @ + 1] ELSE entries
  /\ timers' = IF cronOk /\ schedRunning
                 THEN [timers EXCEPT ![j] = @ + 1] ELSE timers
  /\ IF AddJobProceeds(~cronOk)
       THEN /\ jobs' = jobs \cup {j}
            /\ executors' = [k \in jobs \cup {j} |->
                               IF k = j THEN executor ELSE executors[k]]
            /\ jobConfigs' = [k \in jobs \cup {j} |->
                                IF k = j THEN value ELSE jobConfigs[k]]
            /\ jobStatuses' = NotifyAll(jobStatuses, j, StatusPending)
       ELSE UNCHANGED <<jobs, executors, jobConfigs, jobStatuses>>
  /\ UNCHANGED <<callbacks, schedRunning, stopPc, graceElapsed, runs, lastRun,
                 files, clock, isSchedulerRunning, metrics>>
  /\ UNCHANGED auxVars

\* a RegisterStatusCallback that sends no initial status
InitialStatusesNone(st, names) == st

\* RegisterStatusCallback: the new callback is called with PENDING for every
\* name of js.jobs
InitialStatuses(st, names) ==
  [k \in DOMAIN st \cup names |->
     IF k \in names THEN MapStatus(StatusPending) ELSE st[k]]

\* server.RegisterJobStatusUpdate(js, jst) for a new tracker:
\* SetSchedulerRunning(true), then RegisterStatusCallback appends the callback
\* and calls it with PENDING for every job of js.jobs
RegisterJobStatusUpdate(t) ==
  /\ CallerFree
  /\ t \notin Range(callbacks)
  /\ isSchedulerRunning' = [isSchedulerRunning EXCEPT ![t] = TRUE]
  /\ callbacks' = Append(callbacks, t)
  /\ jobStatuses' = [jobStatuses EXCEPT ![t] = InitialStatuses(@, jobs)]
  /\ UNCHANGED <<jobs, jobConfigs, schedRunning, stopPc, graceElapsed, runs,
                 lastRun, files, clock, metrics>>
  /\ UNCHANGED <<regVars, auxVars>>

\* HTTPServer.Shutdown: statusTracker.SetSchedulerRunning(false)
Shutdown(t) ==
  /\ CallerFree
  /\ t \in Range(callbacks)
  /\ isSchedulerRunning[t]
  /\ isSchedulerRunning' = [isSchedulerRunning EXCEPT ![t] = FALSE]
  /\ UNCHANGED <<schedVars, jobStatuses>>
  /\ UNCHANGED auxVars

\* a StartAsync that starts a dispatch loop on every call
StartAsyncAlwaysStarts(running, armed, registered) ==
  [j \in Jobs |-> armed[j] + registered[j]]

\* gocron StartAsync: a stopped scheduler arms one timer per cron job; a
\* running scheduler is left as it is
StartAsync(running, armed, registered) ==
  IF running THEN armed ELSE registered

\* JobScheduler.Start: StartAsync, then the subscribers are notified
Start ==
  /\ CallerFree
  /\ schedRunning' = TRUE
  /\ timers' = StartAsync(schedRunning, timers, entries)
  /\ jobStatuses' = NotifyAll(jobStatuses, SchedulerKey, StatusRunning)
  /\ UNCHANGED <<jobs, executors, entries, lastAdd, jobConfigs, callbacks,
                 stopPc, graceElapsed, runs, lastRun, files, clock,
                 isSchedulerRunning, metrics>>
  /\ UNCHANGED auxVars

\* a scheduler whose runs share a single worker
SingleWorkerAdmits(inFlight, j) == inFlight = EmptyBag

\* gocron.NewScheduler without SetMaxConcurrentJobs or SingletonMode: a fired
\* job function gets a goroutine of its own whatever is in flight
DefaultModeAdmits(inFlight, j) == TRUE

\* A cron tick of job j: gocron (default mode) starts a goroutine for the
\* closure whatever runs of j are in flight; the closure notifies RUNNING and
\* creates the context of the run.
Tick(j) ==
  /\ schedRunning
  /\ stopPc # "waiting"
  /\ j \in jobs
  /\ timers[j] > 0
  /\ DefaultModeAdmits(runs, j)
  /\ BagCardinality(runs) < MaxRuns
  /\ runs' = runs (+) One([job |-> j, pc |-> "executing", ctx |-> "active"])
  /\ jobStatuses' = NotifyAll(jobStatuses, j, StatusRunning)
  /\ UNCHANGED <<jobs, jobConfigs, callbacks, schedRunning, stopPc,
                 graceElapsed, lastRun, files, clock, isSchedulerRunning,
                 metrics>>
  /\ UNCHANGED <<regVars, auxVars>>

\* the 12 hour timeout of the run's context fires while Execute runs
DeadlineElapses(r) ==
  /\ r \in ActiveRuns
  /\ r.pc = "executing"
  /\ r.ctx = "active"
  /\ runs' = (runs (-) One(r)) (+) One([r EXCEPT !.ctx = "deadline"])
  /\ UNCHANGED <<jobs, jobConfigs, callbacks, schedRunning, stopPc,
                 graceElapsed, lastRun, files, clock, jobStatuses,
                 isSchedulerRunning, metrics>>
  /\ UNCHANGED <<regVars, auxVars>>

\* executor.Execute returns nil after it wrote its artifact; the closure
\* goes on to ApplyRetentionPolicy
ExecuteOk(r) ==
  /\ r \in ActiveRuns
  /\ r.pc = "executing"
  /\ clock < MaxClock
  /\ clock' = clock + 1
  /\ files' = [files EXCEPT ![r.job] = @ \cup {clock + 1}]
  /\ runs' = (runs (-) One(r)) (+) One([r EXCEPT !.pc = "retention"])
  /\ UNCHANGED <<jobs, jobConfigs, callbacks, schedRunning, stopPc,
                 graceElapsed, lastRun, jobStatuses, isSchedulerRunning,
                 metrics>>
  /\ UNCHANGED <<regVars, auxVars>>

\* a closure that calls Execute again after an error
RunsAfterErrorRetries(inFlight, r) == inFlight

\* the closure returns right after the ERROR notification: its goroutine ends
RunsAfterError(inFlight, r) == inFlight (-) One(r)

\* executor.Execute returns an error and the closure notifies the final
\* state; partial tells whether the executor fails after it created its
\* output file or directory, which it leaves behind
ExecuteErr(r, partial) ==
  /\ r \in ActiveRuns
  /\ r.pc = "executing"
  /\ IF partial
       THEN /\ clock < MaxClock
            /\ clock' = clock + 1
            /\ files' = [files EXCEPT ![r.job] = @ \cup {clock + 1}]
       ELSE UNCHANGED <<clock, files>>
  /\ runs' = RunsAfterError(runs, r)
  /\ lastRun' = [job |-> r.job, execErr |-> TRUE, retErr |-> FALSE,
                 notified |-> <<StatusRunning, TerminalStatus(TRUE, FALSE)>>]
  /\ jobStatuses' = NotifyAll(jobStatuses, r.job, TerminalStatus(TRUE, FALSE))
  /\ UNCHANGED <<jobs, jobConfigs, callbacks, schedRunning, stopPc,
                 graceElapsed, isSchedulerRunning, metrics>>
  /\ UNCHANGED <<regVars, auxVars>>

\* ApplyRetentionPolicy returns and the closure notifies the final state.
\* listFails: ApplyRetentionPolicy returns an error before it deletes anything
\* (the job directory cannot be listed, or the storage type is not local);
\* undeletable: artifacts whose os.Remove fails (logged, skipped).
RetentionReturns(r, listFails, undeletable) ==
  /\ r \in ActiveRuns
  /\ r.pc = "retention"
  /\ LET victims == CountVictims(files[r.job], jobConfigs[r.job])
     IN /\ undeletable \subseteq victims
        /\ listFails => undeletable = {}
        /\ files' = [files EXCEPT ![r.job] =
              IF listFails THEN @ ELSE @ \ (victims \ undeletable)]
  /\ runs' = runs (-) One(r)
  /\ lastRun' = [job |-> r.job, execErr |-> FALSE, retErr |-> listFails,
                 notified |-> <<StatusRunning, TerminalStatus(FALSE, listFails)>>]
  /\ jobStatuses' = NotifyAll(jobStatuses, r.job, TerminalStatus(FALSE, listFails))
  /\ UNCHANGED <<jobs, jobConfigs, callbacks, schedRunning, stopPc,
                 graceElapsed, clock, isSchedulerRunning, metrics>>
  /\ UNCHANGED <<regVars, auxVars>>

\* JobScheduler.Stop is called: gocron stops firing and, when it is running,
\* waits for every run goroutine to return (executor.stop waits on its
\* WaitGroup)
StopCall ==
  /\ stopPc = "idle"
  /\ stopPc' = "waiting"
  /\ timers' = [j \in Jobs |-> 0]
  /\ UNCHANGED <<executors, entries, lastAdd>>
  /\ UNCHANGED <<jobs, jobConfigs, callbacks, schedRunning, graceElapsed, runs,
                 lastRun, files, clock, jobStatuses, isSchedulerRunning,
                 metrics>>
  /\ UNCHANGED auxVars

\* the documented grace period passes while Stop is blocked on a run
GraceElapses ==
  /\ stopPc = "waiting"
  /\ schedRunning
  /\ ActiveRuns # {}
  /\ ~graceElapsed
  /\ graceElapsed' = TRUE
  /\ UNCHANGED <<jobs, jobConfigs, callbacks, schedRunning, stopPc, runs,
                 lastRun, files, clock, jobStatuses, isSchedulerRunning,
                 metrics>>
  /\ UNCHANGED <<regVars, auxVars>>

\* scheduler.Stop() returns, JobScheduler.Stop notifies STOPPED and returns
StopReturn ==
  /\ stopPc = "waiting"
  /\ schedRunning => ActiveRuns = {}
  /\ schedRunning' = FALSE
  /\ stopPc' = "idle"
  /\ graceElapsed' = FALSE
  /\ jobStatuses' = NotifyAll(jobStatuses, SchedulerKey, StatusStopped)
  /\ UNCHANGED <<jobs, jobConfigs, callbacks, runs, lastRun, files, clock,
                 isSchedulerRunning, metrics>>
  /\ UNCHANGED <<regVars, auxVars>>

Next ==
  \/ \E j \in Jobs \ jobs : AddJob(j, ExecutorOf[j], RetentionOf[j], TRUE)
  \/ \E t \in Trackers : RegisterJobStatusUpdate(t)
  \/ \E t \in Trackers : Shutdown(t)
  \/ Start
  \/ \E j \in Jobs : Tick(j)
  \/ \E r \in ActiveRuns : DeadlineElapses(r)
  \/ \E r \in ActiveRuns : ExecuteOk(r)
  \/ \E r \in ActiveRuns, partial \in BOOLEAN : ExecuteErr(r, partial)
  \/ \E r \in ActiveRuns, listFails \in BOOLEAN :
       \E undeletable \in SUBSET files[r.job] :
         RetentionReturns(r, listFails, undeletable)
  \/ StopCall
  \/ GraceElapses
  \/ StopReturn

Spec == Init /\ [][Next]_vars

\* ------------------------- registration and start-up, with any AddJob input
\* The scheduler up to the moment its runs are in flight: names are added any
\* number of times (up to MaxEntries) with any executor, retention value and
\* cron expression, before or after Start and the registration of a tracker.
RegNext ==
  \/ \E j \in Jobs, e \in Executors, v \in RetentionValues, cronOk \in BOOLEAN :
       /\ entries[j] < MaxEntries
       /\ AddJob(j, e, v, cronOk)
  \/ \E t \in Trackers : RegisterJobStatusUpdate(t)
  \/ Start
  \/ \E j \in Jobs : Tick(j)

SpecReg == Init /\ [][RegNext]_vars

\* ------------------------------------- the tracker under its own interface
\* JobStatusTracker.UpdateJobStatus called directly (tests,
\* HTTPServer.UpdateJobStatus) with any key and any status
TrackerUpdate(t, k, status) ==
  /\ jobStatuses' = [jobStatuses EXCEPT ![t] = UpdateJobStatus(@, k, status)]
  /\ UNCHANGED <<schedVars, isSchedulerRunning, resp, retVars, extVars, obsVars>>

\* JobStatusTracker.SetSchedulerRunning
SetSchedulerRunning(t, isRunning) ==
  /\ isSchedulerRunning' = [isSchedulerRunning EXCEPT ![t] = isRunning]
  /\ UNCHANGED <<schedVars, jobStatuses, resp, retVars, extVars, obsVars>>

\* HealthCheckHandler, first half: isHealthy() under its own read lock, then
\* WriteHeader with the status code
HealthCheckBegin(t) ==
  /\ resp[t].pc # "header"
  /\ resp' = [resp EXCEPT ![t] =
        [pc |-> "header",
         code |-> HealthStatusCode(isHealthy(isSchedulerRunning[t], jobStatuses[t])),
         body |-> EmptyMap]]
  /\ UNCHANGED <<schedVars, jobStatuses, isSchedulerRunning, retVars, extVars,
                 obsVars>>

\* HealthCheckHandler, second half: GetAllStatuses() under a second read lock
\* and the JSON body
HealthCheckEnd(t) ==
  /\ resp[t].pc = "header"
  /\ resp' = [resp EXCEPT ![t].pc = "done",
                          ![t].body = GetAllStatuses(isSchedulerRunning[t],
                                                     jobStatuses[t])]
  /\ UNCHANGED <<schedVars, jobStatuses, isSchedulerRunning, retVars, extVars,
                 obsVars>>

TrackerNext ==
  \/ \E t \in Trackers, k \in Keys, status \in Statuses : TrackerUpdate(t, k, status)
  \/ \E t \in Trackers, b \in BOOLEAN : SetSchedulerRunning(t, b)
  \/ \E t \in Trackers : HealthCheckBegin(t)
  \/ \E t \in Trackers : HealthCheckEnd(t)

SpecTracker == Init /\ [][TrackerNext]_vars

\* --------------------------------- a caller that keeps the returned map
\* a GetAllStatuses that hands out a map the tracker goes on using
TrackerAfterCallerWriteShared(st, k, status) ==
  UpdateJobStatus(st, k, status)

\* GetAllStatuses fills a map it made itself (result := make(...)): what a
\* caller writes into it reaches no map of the tracker
TrackerAfterCallerWrite(st, k, status) == st

\* a caller calls GetAllStatuses (the whole copy is made under the read lock)
\* and keeps the map
TakeSnapshot(t) ==
  /\ snap' = [snap EXCEPT ![t] =
        [pc |-> "returned",
         map |-> GetAllStatuses(isSchedulerRunning[t], jobStatuses[t])]]
  /\ UNCHANGED <<schedVars, jobStatuses, isSchedulerRunning, resp, retVars, extVars,
                 lastUpdate, durationSum>>

\* the caller assigns result[k] = status in the map it got
WriteSnapshot(t, k, status) ==
  /\ snap[t].pc # "none"
  /\ snap' = [snap EXCEPT ![t] =
        [pc |-> "written", map |-> UpdateJobStatus(snap[t].map, k, status)]]
  /\ jobStatuses' = [jobStatuses EXCEPT ![t] =
        TrackerAfterCallerWrite(@, k, status)]
  /\ UNCHANGED <<schedVars, isSchedulerRunning, resp, retVars, extVars, lastUpdate,
                 durationSum>>

SnapshotNext ==
  \/ \E t \in Trackers, k \in Keys, status \in Statuses : TrackerUpdate(t, k, status)
  \/ \E t \in Trackers, b \in BOOLEAN : SetSchedulerRunning(t, b)
  \/ \E t \in Trackers : TakeSnapshot(t)
  \/ \E t \in Trackers, k \in Keys, status \in Statuses : WriteSnapshot(t, k, status)

SpecSnapshot == Init /\ [][SnapshotNext]_vars

\* ------------------------------------- MetricsCollector under its own interface
RECURSIVE TotalRunsOf(_, _)
\* the UpdateJobMetrics calls made so far: the TotalRuns of every entry
TotalRunsOf(m, names) ==
  IF names = {} THEN 0
  ELSE LET j == CHOOSE x \in names : TRUE
       IN m[j].TotalRuns + TotalRunsOf(m, names \ {j})

\* MetricsCollector.UpdateJobMetrics called with any job, duration, result
\* and size
MetricsUpdate(j, duration, success, backupSize) ==
  /\ TotalRunsOf(metrics, DOMAIN metrics) < MaxUpdates
  /\ metrics' = UpdateJobMetrics(metrics, j, duration, success, backupSize)
  /\ lastUpdate' = [called |-> TRUE, job |-> j, duration |-> duration,
                    success |-> success, backupSize |-> backupSize]
  /\ durationSum' = [durationSum EXCEPT ![j] = @ + duration]
  /\ UNCHANGED <<jobs, regVars, jobConfigs, callbacks, schedRunning, stopPc,
                 graceElapsed, runs, lastRun, files, clock, jobStatuses,
                 isSchedulerRunning, resp, retVars, extVars, snap>>

MetricsNext ==
  \E j \in Jobs, duration \in Durations, success \in BOOLEAN,
     backupSize \in Sizes : MetricsUpdate(j, duration, success, backupSize)

SpecMetrics == Init /\ [][MetricsNext]_vars

\* --------------------------------- a caller that keeps the returned metrics
\* a caller calls GetAllJobMetrics (the copy is made under the read lock) and
\* keeps the map
TakeMetricsCopy ==
  /\ metricsCopy' = [pc |-> "returned", map |-> GetAllJobMetrics(metrics)]
  /\ UNCHANGED <<schedVars, jobStatuses, isSchedulerRunning, resp, retVars,
                 obsVars, cfgVars, minio>>

\* the caller assigns result[j] = JobMetrics{} in the map it got
WriteMetricsCopy(j) ==
  /\ metricsCopy.pc # "none"
  /\ metricsCopy' =
       [pc |-> "written",
        map |-> [k \in DOMAIN metricsCopy.map \cup {j} |->
                   IF k = j THEN ZeroMetrics ELSE metricsCopy.map[k]]]
  /\ metrics' = CollectorAfterCallerWrite(metrics, j, ZeroMetrics)
  /\ UNCHANGED <<jobs, regVars, jobConfigs, callbacks, schedRunning, stopPc,
                 graceElapsed, runs, lastRun, files, clock, jobStatuses,
                 isSchedulerRunning, resp, retVars, obsVars, cfgVars, minio>>

\* the collector under UpdateJobMetrics calls of runs that wrote nothing,
\* beside a caller of GetAllJobMetrics
MetricsCopyNext ==
  \/ \E j \in Jobs, duration \in Durations, success \in BOOLEAN :
       MetricsUpdate(j, duration, success, 0)
  \/ TakeMetricsCopy
  \/ \E j \in Jobs : WriteMetricsCopy(j)

SpecMetricsCopy == Init /\ [][MetricsCopyNext]_vars

\* ------------------- HTTPServer: the tracker and the collector side by side
\* the statusTracker and the metricsCollector of one HTTPServer, each written
\* through its own method; the run that is recorded took one time unit and
\* wrote nothing
ServerNext ==
  \/ \E t \in Trackers, k \in Keys, status \in Statuses : TrackerUpdate(t, k, status)
  \/ \E j \in Jobs, success \in BOOLEAN : MetricsUpdate(j, 1, success, 0)

SpecServer == Init /\ [][ServerNext]_vars

\* --------------------------------------------- main: cfg.Validate()
\* main calls cfg.Validate() on what LoadConfig returned
ValidateCall ==
  /\ validateErr = "unset"
  /\ validateErr' = Validate(cfg)
  /\ UNCHANGED <<cfg, minio, metricsCopy, schedVars, jobStatuses,
                 isSchedulerRunning, resp, retVars, obsVars>>

ValidateInit ==
  /\ InitScheduler
  /\ jobDirExists = FALSE
  /\ dirEntries = {}
  /\ siblingEntries = {}
  /\ policy = [type |-> "count", value |-> 1]
  /\ lastApply = NoApply
  /\ cfg \in Configs
  /\ validateErr = "unset"

ValidateNext == ValidateCall

SpecValidate == ValidateInit /\ [][ValidateNext]_vars

\* ------------------------------------------------- MinioExecutor.Execute
\* everything but minio
notMinio == <<schedVars, jobStatuses, isSchedulerRunning, resp, retVars,
              obsVars, cfgVars, metricsCopy>>

\* a panic in any goroutine ends the process
Crashed == \E j \in Jobs : minio[j].main = "panicked"

\* the run of job j calls Execute: the steps up to cmd.Start, each of which
\* can fail and return its error
ExecuteBegin(j, ok) ==
  /\ ~Crashed
  /\ minio[j].main = "idle"
  /\ minio' = [minio EXCEPT ![j] =
        IF ok THEN [NoExecute EXCEPT !.main = "started"]
              ELSE [NoExecute EXCEPT !.main = "returned", !.result = "error"]]
  /\ UNCHANGED notMinio

\* done := make(chan struct{}); go func() { defer close(done) ... }()
StartLogger(j) ==
  /\ ~Crashed
  /\ minio[j].main = "started"
  /\ minio' = [minio EXCEPT ![j].main = "wait", ![j].logger = "select"]
  /\ UNCHANGED notMinio

\* the context is cancelled or its deadline passes while mc mirror runs;
\* exec.CommandContext kills the process
ContextDone(j) ==
  /\ ~Crashed
  /\ minio[j].main = "wait"
  /\ minio[j].ctx = "active"
  /\ minio' = [minio EXCEPT ![j].ctx = "done"]
  /\ UNCHANGED notMinio

\* cmd.Wait returns: nil only when mc mirror ended by itself with success;
\* the main path goes on to done <- struct{}{}
WaitReturns(j, failed) ==
  /\ ~Crashed
  /\ minio[j].main = "wait"
  /\ minio[j].ctx = "done" => failed
  /\ minio' = [minio EXCEPT ![j].main = "send", ![j].waitErr = failed]
  /\ UNCHANGED notMinio

\* done <- struct{}{} on a channel that is closed, or that is closed while
\* the sender waits: panic (send on closed channel)
SendOutcome(closed) == IF closed THEN "panicked" ELSE "returned"

\* the logger's select takes case <-ctx.Done(): return, and the deferred
\* close(done) runs; a main path blocked in its send panics
LoggerSeesContextDone(j) ==
  /\ ~Crashed
  /\ minio[j].logger = "select"
  /\ minio[j].ctx = "done"
  /\ minio' = [minio EXCEPT
        ![j].logger = "exited",
        ![j].closed = TRUE,
        ![j].main = IF @ = "send" THEN SendOutcome(TRUE) ELSE @,
        ![j].result = IF minio[j].main = "send" /\ SendOutcome(TRUE) = "panicked"
                        THEN "panic" ELSE @]
  /\ UNCHANGED notMinio

\* the logger's select takes case <-done while the main path is sending:
\* the send completes, the logger returns and closes done; the main path
\* returns the error of cmd.Wait or nil
LoggerReceives(j) ==
  /\ ~Crashed
  /\ minio[j].logger = "select"
  /\ minio[j].main = "send"
  /\ minio' = [minio EXCEPT
        ![j].logger = "exited",
        ![j].closed = TRUE,
        ![j].main = SendOutcome(FALSE),
        ![j].result = IF minio[j].waitErr THEN "error" ELSE "nil"]
  /\ UNCHANGED notMinio

\* the main path reaches its send after the logger closed done
SendOnClosed(j) ==
  /\ ~Crashed
  /\ minio[j].main = "send"
  /\ minio[j].closed
  /\ minio' = [minio EXCEPT
        ![j].main = SendOutcome(TRUE),
        ![j].result = IF SendOutcome(TRUE) = "panicked" THEN "panic"
                      ELSE IF minio[j].waitErr THEN "error" ELSE "nil"]
  /\ UNCHANGED notMinio

\* the closure is done with the result; a later tick calls Execute again
ExecuteForgotten(j) ==
  /\ ~Crashed
  /\ minio[j].main = "returned"
  /\ minio[j].logger \in {"none", "exited"}
  /\ minio' = [minio EXCEPT ![j] = NoExecute]
  /\ UNCHANGED notMinio

MinioNext ==
  \/ \E j \in Jobs, ok \in BOOLEAN : ExecuteBegin(j, ok)
  \/ \E j \in Jobs : StartLogger(j)
  \/ \E j \in Jobs : ContextDone(j)
  \/ \E j \in Jobs, failed \in BOOLEAN : WaitReturns(j, failed)
  \/ \E j \in Jobs : LoggerSeesContextDone(j)
  \/ \E j \in Jobs : LoggerReceives(j)
  \/ \E j \in Jobs : SendOnClosed(j)
  \/ \E j \in Jobs : ExecuteForgotten(j)

SpecMinio == Init /\ [][MinioNext]_vars

\* ------------------------------ retention.Manager on one job directory
\* An entry of the job directory: the prefix of its name (every name goes on
\* with a timestamp after the prefix), whether it is a directory, whether it
\* has content, and its modification time in days.
ArtifactKinds ==
  { [prefix |-> "pg_backup_",    isDir |-> FALSE, hasContent |-> FALSE],
    [prefix |-> "mysql_backup_", isDir |-> FALSE, hasContent |-> FALSE],
    [prefix |-> "minio_backup_", isDir |-> TRUE,  hasContent |-> TRUE],
    [prefix |-> "minio_backup_", isDir |-> TRUE,  hasContent |-> FALSE],
    [prefix |-> "notes_",        isDir |-> FALSE, hasContent |-> FALSE] }

Artifacts ==
  { [prefix |-> k.prefix, isDir |-> k.isDir, hasContent |-> k.hasContent,
     mtime |-> m] : k \in ArtifactKinds, m \in 1..MaxMtime }

RECURSIVE SubsetsUpTo(_, _)
SubsetsUpTo(S, n) ==
  IF n = 0 THEN {{}}
  ELSE LET smaller == SubsetsUpTo(S, n - 1)
       IN smaller \cup {d \cup {a} : d \in smaller, a \in S}

Directories == SubsetsUpTo(Artifacts, MaxArtifacts)

Policies == [type : {"count", "days"}, value : 1..MaxKeep]

\* what the directory of another job under the same storage root holds
SiblingDirectory ==
  {a \in Artifacts : a.mtime = 1 /\ ~a.hasContent /\ a.prefix # "notes_"}

\* time.Now() of the run and of its retention call, in days: later than
\* every entry the directory starts with
Now == MaxMtime + 1

\* the name prefixes of isBackupFile and isBackupDir
BackupPrefixes == {"pg_backup_", "mysql_backup_", "minio_backup_"}

isBackupFile(a) == a.prefix \in {"pg_backup_", "mysql_backup_"}

isBackupDir(a) == a.prefix \in {"minio_backup_"}

\* a listing that takes every entry of the directory
listEveryEntry(dir) == dir

listBackupFiles(dir) ==
  {a \in dir : IF a.isDir THEN isBackupDir(a) ELSE isBackupFile(a)}

\* os.Remove deletes a file or an empty directory
OsRemoveSucceeds(a) == ~(a.isDir /\ a.hasContent)

\* sort.Slice by ModTime.After and the first keepCount elements: any
\* keepCount listed entries none of which is older than a left out one
\* (everything when no more than keepCount entries are listed)
KeptChoices(listed, keepCount) ==
  IF Cardinality(listed) <= keepCount THEN {listed}
  ELSE {K \in SUBSET listed :
          /\ Cardinality(K) = keepCount
          /\ \A k \in K : \A v \in listed \ K : k.mtime >= v.mtime}

\* applyCountBasedRetention: the entries it calls os.Remove on
applyCountBasedRetention(listed, keepCount, kept) ==
  IF Cardinality(listed) <= keepCount THEN {} ELSE listed \ kept

\* a days policy that removes the oldest listed entries on every call
applyDaysBasedRetentionOldest(listed, keepDays) ==
  {a \in listed : \A b \in listed : a.mtime <= b.mtime}

\* applyDaysBasedRetention: cutoffTime and the entries it calls os.Remove on
applyDaysBasedRetention(listed, keepDays) ==
  LET cutoffTime == Now - keepDays
  IN {a \in listed : a.mtime < cutoffTime}

\* a removal loop that gives up at a first failure
RemoveLoopAbortsOnFailure(victims, denied) ==
  IF \E a \in victims : ~OsRemoveSucceeds(a) \/ a \in denied
    THEN {} ELSE victims

\* the removal loops of both policies: os.Remove on every entry outside the
\* policy, a failure is logged and the loop continues; the entries removed
RemoveLoop(victims, denied) ==
  {a \in victims : OsRemoveSucceeds(a) /\ a \notin denied}

\* an ApplyRetentionPolicy that reports a missing job directory
MissingDirIsErrorStrict == TRUE

\* ApplyRetentionPolicy: os.Stat says the directory does not exist: return nil
MissingDirIsError == FALSE

\* ApplyRetentionPolicy for the job, on local storage (Validate admits no
\* other storage type and no other policy type). listFails: os.ReadDir
\* fails; kept: the order sort.Slice gives to entries of equal time; denied:
\* entries whose removal the file system refuses.
ApplyRetentionPolicy(listFails, kept, denied) ==
  LET listed == listBackupFiles(dirEntries)
      victims == IF policy.type = "count"
                   THEN applyCountBasedRetention(listed, policy.value, kept)
                   ELSE applyDaysBasedRetention(listed, policy.value)
      removed == RemoveLoop(victims, denied)
      listing == jobDirExists /\ ~listFails
  IN /\ kept \in KeptChoices(listed, policy.value)
     /\ denied \subseteq victims
     /\ ~listing => denied = {}
     /\ ~jobDirExists => ~listFails
     /\ dirEntries' = IF listing THEN dirEntries \ removed ELSE dirEntries
     /\ lastApply' = [called |-> TRUE, before |-> dirEntries,
                       attempted |-> IF listing THEN victims ELSE {},
                       denied |-> denied, listFailed |-> listFails,
                       err |-> IF jobDirExists THEN listFails
                                               ELSE MissingDirIsError,
                       everRemoved |-> \/ lastApply.everRemoved
                                       \/ (listing /\ removed # {})]
     /\ UNCHANGED <<jobDirExists, siblingEntries, policy, resp, schedVars,
                    jobStatuses, isSchedulerRunning, obsVars,
                 extVars>>

\* the kinds of artifact an executor creates
CreatedKinds == listBackupFiles({[k EXCEPT !.mtime = Now] : k \in Artifacts})

\* a successful Execute of the job: MkdirAll of the job directory and the
\* new artifact in it, modified now
ExecutorCreates(a) ==
  /\ \A b \in dirEntries : b.mtime < Now
  /\ jobDirExists' = TRUE
  /\ dirEntries' = dirEntries \cup {a}
  /\ UNCHANGED <<siblingEntries, policy, lastApply, resp, schedVars,
                 jobStatuses, isSchedulerRunning, obsVars,
                 extVars>>

RetInit ==
  /\ InitScheduler
  /\ InitConfig
  /\ jobDirExists \in BOOLEAN
  /\ dirEntries \in IF jobDirExists THEN Directories ELSE {{}}
  /\ siblingEntries = SiblingDirectory
  /\ policy \in Policies
  /\ lastApply = NoApply

RetNext ==
  \/ \E listFails \in BOOLEAN :
       \E kept \in KeptChoices(listBackupFiles(dirEntries), policy.value) :
         \E denied \in SubsetsUpTo(listBackupFiles(dirEntries), 1) :
           ApplyRetentionPolicy(listFails, kept, denied)
  \/ \E a \in CreatedKinds : ExecutorCreates(a)

SpecRetention == RetInit /\ [][RetNext]_vars

\* the matching artifacts of a directory and the cutoff of a days policy
Matching(dir) == listBackupFiles(dir)
Min(a, b) == IF a <= b THEN a ELSE b

\* ------------------------------------------------------------- properties
Subscribed == Range(callbacks)

\* a run goroutine that was in state r returns in this step
Returns(r) ==
  /\ r \in ActiveRuns
  /\ CopiesIn(r, runs') = CopiesIn(r, runs) - 1
  /\ BagCardinality(runs') = BagCardinality(runs) - 1

Terminal(r) == r.notified[Len(r.notified)]

\* C1: for every job at most one run is active at any instant (a tick that
\* arrives while a run of the job is active starts no run).
AtMostOneActiveRunPerJob ==
  \A j \in Jobs : NumActive(j) <= 1

\* C2: every run notifies RUNNING and then exactly one terminal state,
\* COMPLETE when the executor returned no error and ERROR otherwise, and a
\* RUNNING of a job is never notified while an earlier run of that job has
\* not notified its terminal state.
RunNotificationsNeverInterleave ==
  /\ [](lastRun # NoRun =>
          lastRun.notified = <<StatusRunning,
                               IF lastRun.execErr THEN StatusError
                               ELSE StatusComplete>>)
  /\ [][\A j \in Jobs :
          NumActive(j)' > NumActive(j) => NumActive(j) = 0]_vars

\* C3: a run whose executor returns an error ends in ERROR and leaves the
\* job's backup directory with exactly the artifacts it had.
FailedRunLeavesDirectoryUntouched ==
  [][\A r \in RunStates :
       (Returns(r) /\ r.pc = "executing")
         => /\ Terminal(lastRun') = StatusError
            /\ files'[r.job] = files[r.job]]_vars

\* C4: when the executor succeeds and ApplyRetentionPolicy returns an error,
\* the terminal state of the run is COMPLETE, in the notification and in
\* every subscribed tracker at that moment.
RetentionErrorStaysComplete ==
  /\ []((lastRun # NoRun /\ ~lastRun.execErr /\ lastRun.retErr)
          => Terminal(lastRun) = StatusComplete)
  /\ [][\A r \in RunStates :
          (Returns(r) /\ lastRun'.retErr)
            => \A t \in Subscribed :
                 jobStatuses'[t][r.job] = StatusComplete]_vars

RetentionErrorWitness ==
  /\ lastRun # NoRun
  /\ ~lastRun.execErr
  /\ lastRun.retErr
  /\ Subscribed # {}
  /\ \A t \in Subscribed : jobStatuses[t][lastRun.job] = StatusComplete

\* C5: every run that reaches a terminal state is recorded in the metrics
\* collector exactly once: totalRuns grows by one, and so does successfulRuns
\* (COMPLETE) or failedRuns (ERROR).
EveryRunIsRecordedInMetrics ==
  [][\A r \in RunStates :
       Returns(r) =>
         LET old == GetJobMetrics(metrics, r.job)
             new == GetJobMetrics(metrics', r.job)
             ok == Terminal(lastRun') = StatusComplete
         IN /\ new.TotalRuns = old.TotalRuns + 1
            /\ new.SuccessfulRuns = old.SuccessfulRuns + (IF ok THEN 1 ELSE 0)
            /\ new.FailedRuns = old.FailedRuns + (IF ok THEN 0 ELSE 1)]_vars

\* C6: a run whose deadline elapsed before the executor returned ends in
\* ERROR.
DeadlineMeansError ==
  [][\A r \in RunStates :
       (Returns(r) /\ r.ctx = "deadline") => Terminal(lastRun') = StatusError]_vars

\* C7: once the grace period has elapsed, Stop has returned to its caller.
StopReturnsWithinGrace ==
  graceElapsed => stopPc # "waiting"

\* C8: when Stop is called while a run is active, the context passed to that
\* run's executor is cancelled (at the latest when the grace period is over).
StopCancelsRunContexts ==
  (stopPc = "waiting" /\ graceElapsed)
    => \A r \in ActiveRuns : r.pc = "executing" => r.ctx # "active"

\* C9: when Stop returns, every subscribed tracker shows the scheduler entry
\* STOPPED in its snapshot and is unhealthy.
StopMarksSchedulerStopped ==
  [][(stopPc = "waiting" /\ stopPc' = "idle")
       => \A t \in Subscribed :
            /\ GetAllStatuses(isSchedulerRunning'[t], jobStatuses'[t])[SchedulerKey]
                 = StatusStopped
            /\ ~isHealthy(isSchedulerRunning'[t], jobStatuses'[t])]_vars

\* C10: isHealthy is true exactly when the scheduler is marked running and no
\* entry of the job status map is ERROR.
HealthyIffRunningAndNoError ==
  \A t \in Trackers :
    isHealthy(isSchedulerRunning[t], jobStatuses[t])
      <=> /\ isSchedulerRunning[t] = TRUE
          /\ ~(\E k \in DOMAIN jobStatuses[t] : jobStatuses[t][k] = StatusError)

HealthyWitness ==
  \E t \in Trackers :
    /\ isSchedulerRunning[t]
    /\ \E k \in DOMAIN jobStatuses[t] : jobStatuses[t][k] = StatusError
    /\ \E k \in DOMAIN jobStatuses[t] : jobStatuses[t][k] = StatusComplete
    /\ ~isHealthy(isSchedulerRunning[t], jobStatuses[t])

SchedulerEntryFollowsFlag ==
  \A t \in Trackers :
    GetAllStatuses(isSchedulerRunning[t], jobStatuses[t])[SchedulerKey] =
      IF isSchedulerRunning[t] THEN StatusRunning ELSE StatusStopped

\* C13: AddJob for a name that is already registered returns an error: the
\* registered job keeps its executor and its configuration and no second
\* schedule entry is created for the name.
DuplicateNameIsRejected ==
  [][\A j \in Jobs :
       entries[j] >= 1
         => /\ entries'[j] = entries[j]
            /\ executors'[j] = executors[j]
            /\ jobConfigs'[j] = jobConfigs[j]]_vars

\* C14: AddJob with an unparsable cron expression returns an error, stores no
\* executor or configuration, notifies nobody and leaves the registered jobs
\* and their schedule entries as they were; the scheduler still starts and a
\* running scheduler keeps a timer armed for every registered entry.
BadCronChangesNothing ==
  /\ [](lastAdd.called /\ ~lastAdd.cronOk => lastAdd.err)
  /\ [][(lastAdd' # lastAdd /\ ~lastAdd'.cronOk)
          => UNCHANGED <<jobs, executors, jobConfigs, entries, timers,
                         jobStatuses, callbacks, schedRunning, runs>>]_vars
  /\ [](lastAdd.err => ENABLED Start)
  /\ [](lastAdd.err /\ schedRunning => \A j \in Jobs : timers[j] = entries[j])

BadCronWitness ==
  /\ lastAdd.err
  /\ "A" \notin jobs
  /\ "B" \in jobs
  /\ schedRunning
  /\ NumActive("B") = 1
  /\ \A t \in Trackers : t \in Subscribed /\ DOMAIN jobStatuses[t] = {"B"}

StartOnRunningIsNoOp ==
  /\ [](\A j \in Jobs : timers[j] <= entries[j])
  /\ [][(schedRunning /\ stopPc = "idle" /\ stopPc' = "idle" /\ entries' = entries)
          => (timers' = timers /\ schedRunning')]_vars
  /\ [](CallerFree => ENABLED Start)

\* (no run has returned and A's run is in flight, so the scheduler was never
\* stopped; the tracker registered after A's tick and Start was called again
\* after that)
StartTwiceWitness ==
  /\ schedRunning
  /\ lastRun = NoRun
  /\ NumActive("A") = 1
  /\ timers["A"] = 1
  /\ \E t \in Subscribed :
       /\ SchedulerKey \in DOMAIN jobStatuses[t]
       /\ jobStatuses[t][SchedulerKey] = StatusRunning
       /\ jobStatuses[t]["A"] = StatusPending

\* C17: the executor is invoked once per fired tick: a run that ends (in
\* ERROR in particular) ends its goroutine in the same step, and a run, with
\* its one call of Execute, starts only from an armed timer, one at a time
\* and never in the step in which a run ends.
ExecutorInvokedOncePerTick ==
  /\ [][(\/ lastRun' # lastRun
          \/ \E t \in Subscribed : \E j \in jobs :
               /\ jobStatuses'[t][j] = StatusError
               /\ jobStatuses[t][j] # StatusError)
          => BagCardinality(runs') = BagCardinality(runs) - 1]_vars
  /\ [][\A j \in Jobs :
          NumActive(j)' > NumActive(j)
            => /\ timers[j] > 0
               /\ NumActive(j)' = NumActive(j) + 1
               /\ BagCardinality(runs') = BagCardinality(runs) + 1
               /\ lastRun' = lastRun]_vars

NoRetryAfterErrorWitness ==
  /\ lastRun.job = "A"
  /\ lastRun.execErr
  /\ NumActive("A") = 0
  /\ timers["A"] = 1
  /\ \E t \in Subscribed : jobStatuses[t]["A"] = StatusError

\* C18: while a run of one job is inside its executor, a tick of another
\* registered job still starts a run (with its RUNNING update), and a run of
\* another job still reaches its terminal state (with its status update).
BlockedRunDoesNotBlockOthers ==
  \A r \in ActiveRuns : \A j \in Jobs \ {r.job} :
    r.pc = "executing"
      => /\ (timers[j] > 0 /\ BagCardinality(runs) < MaxRuns) => ENABLED Tick(j)
         /\ \A q \in ActiveRuns :
              q.job = j
                => /\ q.pc = "executing"
                        => /\ ENABLED ExecuteErr(q, FALSE)
                           /\ clock < MaxClock => ENABLED ExecuteOk(q)
                   /\ q.pc = "retention"
                        => ENABLED RetentionReturns(q, FALSE, {})

BlockedRunWitness ==
  /\ \E r \in ActiveRuns : r.job = "A" /\ r.pc = "executing" /\ r.ctx = "deadline"
  /\ NumActive("B") = 1
  /\ lastRun.job = "B"
  /\ Terminal(lastRun) = StatusComplete
  /\ \E t \in Subscribed :
       jobStatuses[t]["A"] = StatusRunning /\ jobStatuses[t]["B"] = StatusRunning

\* C19: after ApplyRetentionPolicy with a count policy n on a directory with
\* k matching artifacts (and no failure of the file system), exactly
\* min(n, k) matching artifacts remain and none of them is older than a
\* deleted one, for files and for backup directories with content alike.
CountPolicyKeepsNewestN ==
  (lastApply.called /\ ~lastApply.err /\ lastApply.denied = {}
     /\ policy.type = "count")
    => LET was == Matching(lastApply.before)
           remain == Matching(dirEntries)
       IN /\ Cardinality(remain) = Min(policy.value, Cardinality(was))
          /\ remain \subseteq was
          /\ \A a \in remain : \A b \in was \ remain : a.mtime >= b.mtime

\* C20: after ApplyRetentionPolicy with a days policy d (and no failure of
\* the file system), every remaining matching artifact was modified at or
\* after the cutoff, now minus d days, and every deleted one before it.
DaysPolicyCutoff ==
  (lastApply.called /\ ~lastApply.err /\ lastApply.denied = {}
     /\ policy.type = "days")
    => /\ \A a \in Matching(dirEntries) : a.mtime >= Now - policy.value
       /\ \A a \in lastApply.before \ dirEntries : a.mtime < Now - policy.value

MissingDirectoryIsNoOp ==
  [][(~jobDirExists /\ lastApply' # lastApply)
       => /\ lastApply'.called /\ ~lastApply'.err
          /\ lastApply'.attempted = {}
          /\ ~jobDirExists'
          /\ UNCHANGED <<dirEntries, siblingEntries>>]_vars

MissingDirectoryWitness ==
  /\ lastApply.called
  /\ ~jobDirExists
  /\ siblingEntries # {}

\* C23: no step deletes an entry of the job directory whose name has no
\* backup prefix, and no step deletes or adds anything in the directory of
\* another job
OnlyOwnBackupsAreDeleted ==
  [][/\ \A a \in dirEntries \ dirEntries' : a.prefix \in BackupPrefixes
     /\ siblingEntries' = siblingEntries]_vars

OnlyOwnBackupsWitness ==
  /\ lastApply.called
  /\ lastApply.before \ dirEntries # {}
  /\ \E a \in dirEntries : /\ a.prefix \notin BackupPrefixes
                             /\ \A b \in lastApply.before \ dirEntries :
                                   a.mtime <= b.mtime
  /\ \E a \in siblingEntries : /\ a.prefix \in BackupPrefixes
                                 /\ \A b \in lastApply.before \ dirEntries :
                                       a.mtime <= b.mtime

\* C24: a call that could list the directory returns no error, whatever
\* removals failed, and a call that could not returns one; when a removal
\* failed, every other entry outside the policy was still attempted and is
\* gone unless its own removal failed
RemovalFailureIsSkipped ==
  lastApply.called =>
    /\ lastApply.err <=> lastApply.listFailed
    /\ ~lastApply.listFailed =>
         LET was == Matching(lastApply.before)
         IN /\ policy.type = "days" =>
                 lastApply.attempted =
                   {a \in was : a.mtime < Now - policy.value}
            /\ policy.type = "count" =>
                 Cardinality(lastApply.attempted) =
                   Cardinality(was) - Min(policy.value, Cardinality(was))
            /\ \A a \in lastApply.attempted :
                 (a \notin lastApply.denied /\ OsRemoveSucceeds(a))
                   => a \notin dirEntries

RemovalFailureWitness ==
  /\ lastApply.called /\ ~lastApply.err
  /\ lastApply.denied # {}
  /\ lastApply.denied \subseteq dirEntries
  /\ \E a \in lastApply.attempted \ lastApply.denied : a \notin dirEntries

\* C25: when a successful run has produced its artifact and the count policy
\* n is then applied (no removal refused by the file system), the new
\* artifact is retained and min(n, listed) matching artifacts remain, the
\* most recently modified ones: with n = 2 and 3 older artifacts, the new
\* one and the most recent older one
NewArtifactSurvivesRetention ==
  (/\ lastApply.called /\ ~lastApply.err /\ lastApply.denied = {}
   /\ policy.type = "count"
   /\ \E a \in Matching(lastApply.before) : a.mtime = Now)
    => LET was == Matching(lastApply.before)
           remain == Matching(dirEntries)
       IN /\ \A a \in was : a.mtime = Now => a \in remain
          /\ Cardinality(remain) = Min(policy.value, Cardinality(was))
          /\ \A k \in remain : \A v \in was \ remain : k.mtime >= v.mtime

\* the notification of status for key k left every other entry of tracker t
\* and its scheduler flag as they were and made the entry of k equal status
OnlyEntryWritten(t, k, status) ==
  /\ DOMAIN jobStatuses'[t] = DOMAIN jobStatuses[t] \cup {k}
  /\ jobStatuses'[t][k] = status
  /\ \A o \in DOMAIN jobStatuses[t] \ {k} :
       jobStatuses'[t][o] = jobStatuses[t][o]
  /\ isSchedulerRunning'[t] = isSchedulerRunning[t]

\* C26: every status update a job run makes (RUNNING when it starts, its
\* terminal status when it returns) sets the entry of its job to that status
\* and changes no other entry and not the scheduler flag, whatever runs of
\* other jobs are in flight
UpdateWritesOnlyItsEntry ==
  [][\A t \in Subscribed :
       /\ \A j \in Jobs : NumActive(j)' > NumActive(j)
                             => OnlyEntryWritten(t, j, StatusRunning)
       /\ \A r \in ActiveRuns : Returns(r)
                             => OnlyEntryWritten(t, r.job, Terminal(lastRun'))]_vars

UpdateInterleavedWitness ==
  \E t \in Subscribed : \E j \in Jobs : \E o \in Jobs \ {j} :
    /\ lastRun.job = j
    /\ NumActive(j) = 0 /\ NumActive(o) = 1
    /\ j \in DOMAIN jobStatuses[t] /\ o \in DOMAIN jobStatuses[t]
    /\ jobStatuses[t][j] = StatusError
    /\ jobStatuses[t][o] = StatusRunning

\* C27: the map GetAllStatuses returns holds the entries of one tracker
\* state, the one it was called in (every job entry, and the scheduler entry
\* from the flag unless a status was stored under that key); a write into
\* the returned map changes nothing in the tracker, and an update of the
\* tracker changes no map that was returned before
SnapshotIsConsistentCopy ==
  [][\A t \in Trackers :
       /\ (snap'[t] # snap[t] /\ snap'[t].pc = "returned")
            => /\ DOMAIN snap'[t].map = {SchedulerKey} \cup DOMAIN jobStatuses[t]
               /\ \A k \in DOMAIN jobStatuses[t] :
                    snap'[t].map[k] = jobStatuses[t][k]
               /\ SchedulerKey \notin DOMAIN jobStatuses[t]
                    => snap'[t].map[SchedulerKey] =
                         (IF isSchedulerRunning[t] THEN StatusRunning
                                                   ELSE StatusStopped)
       /\ snap'[t] # snap[t]
            => /\ jobStatuses'[t] = jobStatuses[t]
               /\ isSchedulerRunning'[t] = isSchedulerRunning[t]
       /\ (\/ jobStatuses'[t] # jobStatuses[t]
           \/ isSchedulerRunning'[t] # isSchedulerRunning[t])
            => snap'[t] = snap[t]]_vars

SnapshotWrittenWitness ==
  \E t \in Trackers : \E j \in Jobs :
    /\ snap[t].pc = "written"
    /\ j \in DOMAIN jobStatuses[t]
    /\ jobStatuses[t][j] = StatusError
    /\ j \in DOMAIN snap[t].map
    /\ snap[t].map[j] = StatusComplete
    /\ isSchedulerRunning[t]
    /\ snap[t].map[SchedulerKey] = StatusStopped

\* C28: a job entry that is ERROR stays ERROR in the tracker and in its
\* snapshots, and the tracker unhealthy, in every step but the start of a
\* later run of that job (a run that starts after the failed one returned
\* notifies RUNNING first)
ErrorStaysUntilNextRun ==
  [][\A t \in Subscribed : \A j \in Jobs :
       (j \in DOMAIN jobStatuses[t] /\ jobStatuses[t][j] = StatusError)
         => \/ NumActive(j)' > NumActive(j)
            \/ /\ j \in DOMAIN jobStatuses'[t]
               /\ jobStatuses'[t][j] = StatusError
               /\ ~isHealthy(isSchedulerRunning'[t], jobStatuses'[t])
               /\ GetAllStatuses(isSchedulerRunning'[t], jobStatuses'[t])[j]
                    = StatusError]_vars

\* C29: every UpdateJobMetrics call adds 1 to the job's TotalRuns and 1 to
\* exactly one of SuccessfulRuns and FailedRuns (by the call's result), stores
\* the call's duration and size as LastRunDuration and LastBackupSize and adds
\* the size to TotalBackupSize; so TotalRuns = SuccessfulRuns + FailedRuns in
\* every entry, and TotalRuns, the divisor of the average, is at least 1
UpdateCountsEveryCall ==
  /\ [][metrics' # metrics =>
          LET j == lastUpdate'.job
              old == GetJobMetrics(metrics, j)
              new == metrics'[j]
              ok == lastUpdate'.success
          IN /\ new.TotalRuns = old.TotalRuns + 1
             /\ new.SuccessfulRuns = old.SuccessfulRuns + (IF ok THEN 1 ELSE 0)
             /\ new.FailedRuns = old.FailedRuns + (IF ok THEN 0 ELSE 1)
             /\ new.LastRunDuration = lastUpdate'.duration
             /\ new.LastBackupSize = lastUpdate'.backupSize
             /\ new.TotalBackupSize = old.TotalBackupSize + lastUpdate'.backupSize]_vars
  /\ [](\A j \in DOMAIN metrics :
          /\ metrics[j].TotalRuns = metrics[j].SuccessfulRuns + metrics[j].FailedRuns
          /\ metrics[j].TotalRuns >= 1)

UpdateCountsWitness ==
  \E j \in DOMAIN metrics :
    /\ metrics[j].TotalRuns = 3
    /\ metrics[j].SuccessfulRuns = 2
    /\ metrics[j].FailedRuns = 1
    /\ metrics[j].TotalBackupSize = 10
    /\ metrics[j].LastBackupSize = 0
    /\ ~lastUpdate.success /\ lastUpdate.job = j

\* C30: in every entry AverageRunDuration is the arithmetic mean of all the
\* durations passed for the job (in whole nanoseconds)
AverageIsMeanOfDurations ==
  \A j \in DOMAIN metrics :
    metrics[j].AverageRunDuration = durationSum[j] \div metrics[j].TotalRuns

\* C30, as the code has it: every call sets AverageRunDuration to
\* (average * (n - 1) + duration) / n with n the TotalRuns already
\* incremented and a division that truncates; the value never exceeds the
\* mean of all durations, is less than n / 2 below it, and is the mean as
\* long as no division truncated
AverageIsTruncatedRunningMean ==
  /\ [][metrics' # metrics =>
          LET j == lastUpdate'.job
              old == GetJobMetrics(metrics, j)
              new == metrics'[j]
              n == new.TotalRuns
              total == old.AverageRunDuration * (n - 1) + lastUpdate'.duration
          IN /\ n = old.TotalRuns + 1
             /\ new.AverageRunDuration * n <= total
             /\ total < (new.AverageRunDuration + 1) * n
             /\ (/\ old.AverageRunDuration * (n - 1) = durationSum[j]
                 /\ total % n = 0)
                  => new.AverageRunDuration * n = durationSum'[j]]_vars
  /\ [](\A j \in DOMAIN metrics :
          LET n == metrics[j].TotalRuns
              scaled == metrics[j].AverageRunDuration * n
          IN /\ scaled <= durationSum[j]
             /\ 2 * (durationSum[j] - scaled) <= n * (n - 1))

AverageWitness ==
  \E j \in DOMAIN metrics :
    /\ metrics[j].TotalRuns = 3
    /\ durationSum[j] = 60
    /\ metrics[j].LastRunDuration = 30
    /\ metrics[j].AverageRunDuration = 20

BreaksRule(c) ==
  \/ c.Server.Enabled /\ c.Server.Port \notin 1..MaxPort
  \/ c.Storage.Type # "local"
  \/ c.Storage.Type = "local" /\ c.Storage.Directory = ""
  \/ c.Jobs = <<>>
  \/ \E i \in DOMAIN c.Jobs :
       LET job == c.Jobs[i]
       IN \/ job.Name = ""
          \/ job.Type \notin {"postgres", "mysql", "minio"}
          \/ /\ job.Type = "postgres"
             /\ \/ ~job.PostgresConfig.present
                \/ job.PostgresConfig.Host = ""
                \/ job.PostgresConfig.Database = ""
          \/ /\ job.Type = "mysql"
             /\ \/ ~job.MySQLConfig.present
                \/ job.MySQLConfig.ConnectionString = ""
          \/ /\ job.Type = "minio"
             /\ \/ ~job.MinIOConfig.present
                \/ job.MinIOConfig.Endpoint = ""
                \/ job.MinIOConfig.BucketName = ""
          \/ job.Schedule = ""
          \/ job.RetentionPolicy.Type \notin {"count", "days"}
          \/ job.RetentionPolicy.Value <= 0

OnlyOwnKindIsCandidate ==
  (/\ lastApply.called /\ ~lastApply.err
   /\ \E n \in lastApply.before : n.mtime = Now)
    => LET own == (CHOOSE n \in lastApply.before : n.mtime = Now).prefix
       IN /\ \A a \in lastApply.attempted : a.prefix = own
          /\ \A a \in lastApply.before \ dirEntries : a.prefix = own

\* C34: an Execute whose context was cancelled or timed out while mc mirror
\* was running does not panic, and when it has returned it has returned an
\* error
CancelledMirrorReturnsError ==
  \A j \in Jobs :
    minio[j].ctx = "done" =>
      /\ minio[j].main # "panicked"
      /\ minio[j].main = "returned" => minio[j].result = "error"

\* C35: whenever callbacks are registered, no subscriber records PENDING
\* for a job while a run of that job is between its RUNNING and its terminal
\* notification
NoPendingWhileRunInFlight ==
  \A t \in Subscribed : \A j \in Jobs :
    (NumActive(j) > 0 /\ j \in DOMAIN jobStatuses[t])
      => jobStatuses[t][j] # StatusPending

\* C36: a finished /health response agrees with itself, also when statuses
\* were updated during the request: with 200 the body lists no entry as ERROR
\* and the scheduler not as STOPPED, with 503 it lists the scheduler as
\* STOPPED or an entry as ERROR (stated for trackers that hold no status
\* under the reserved key, whose body entry is the flag's)
HealthCodeAgreesWithBody ==
  \A t \in Trackers :
    (resp[t].pc = "done" /\ SchedulerKey \notin DOMAIN jobStatuses[t])
      => LET body == resp[t].body
             listsError == \E k \in DOMAIN body \ {SchedulerKey} :
                             body[k] = StatusError
             listsStopped == body[SchedulerKey] = StatusStopped
         IN /\ resp[t].code = StatusOK => ~listsError /\ ~listsStopped
            /\ resp[t].code = StatusServiceUnavailable
                 => listsError \/ listsStopped

\* C37: COMPLETE is notified only after ApplyRetentionPolicy returned: while
\* the retention step of a run is executing, every subscriber still shows the
\* run's job as RUNNING
RetentionSeenAsRunning ==
  \A t \in Subscribed : \A r \in ActiveRuns :
    r.pc = "retention"
      => /\ r.job \in DOMAIN jobStatuses[t]
         /\ jobStatuses[t][r.job] = StatusRunning

\* C38: nothing is removed or reset: the keys of the status snapshot only
\* grow, and no job's metrics entry disappears or has its totalRuns,
\* successfulRuns or failedRuns decreased
StatusAndMetricsOnlyGrow ==
  [][/\ \A t \in Trackers :
          DOMAIN GetAllStatuses(isSchedulerRunning[t], jobStatuses[t])
            \subseteq DOMAIN GetAllStatuses(isSchedulerRunning'[t], jobStatuses'[t])
     /\ \A t \in Trackers : DOMAIN jobStatuses[t] \subseteq DOMAIN jobStatuses'[t]
     /\ \A j \in DOMAIN metrics :
          /\ j \in DOMAIN metrics'
          /\ metrics'[j].TotalRuns >= metrics[j].TotalRuns
          /\ metrics'[j].SuccessfulRuns >= metrics[j].SuccessfulRuns
          /\ metrics'[j].FailedRuns >= metrics[j].FailedRuns]_vars

\* a tracker that holds both jobs, one of them overwritten back to PENDING,
\* beside a collector that recorded a success and a failure of one job and a
\* run of the other
StatusAndMetricsWitness ==
  \E t \in Trackers :
    /\ Jobs \subseteq DOMAIN jobStatuses[t]
    /\ \E j \in Jobs : jobStatuses[t][j] = StatusPending
    /\ Jobs \subseteq DOMAIN metrics
    /\ \E j \in Jobs : metrics[j].SuccessfulRuns >= 1 /\ metrics[j].FailedRuns >= 1

\* C39: UpdateJobMetrics for one job leaves every other job's metrics as
\* they were; GetJobMetrics reports found = false for a job until its first
\* recorded run and true from then on; what a caller writes into the map
\* GetAllJobMetrics returned changes nothing in the collector
CollectorIsolation ==
  /\ [](\A j \in Jobs : GetJobMetricsFound(metrics, j) <=> durationSum[j] > 0)
  /\ [][(metrics' # metrics \/ lastUpdate' # lastUpdate)
         => \A k \in DOMAIN metrics \ {lastUpdate'.job} :
              k \in DOMAIN metrics' /\ metrics'[k] = metrics[k]]_vars
  /\ [][metricsCopy' # metricsCopy => metrics' = metrics]_vars
  /\ [][(metricsCopy'.pc = "returned" /\ metricsCopy' # metricsCopy)
         => metricsCopy'.map = metrics]_vars

\* both jobs have recorded runs, one job none before the other's first, and
\* a caller has zeroed an entry of the map it got while the collector still
\* holds that job's runs
CollectorIsolationWitness ==
  /\ Jobs \subseteq DOMAIN metrics
  /\ metricsCopy.pc = "written"
  /\ \E j \in Jobs :
       /\ metricsCopy.map[j] = ZeroMetrics
       /\ metrics[j].TotalRuns >= 1
       /\ lastUpdate.job # j

====
